---- MODULE Spec2Model ----
(***************************************************************************)
(* NodeMap (src/nodemap.py): a single-threaded, event-driven editor of a   *)
(* small directed graph.  The state is the two global dictionaries of the  *)
(* application (app.nodes, app.edges), the main window's fields (the view  *)
(* mapping, the selection, the unsaved-changes flag, the bound file name,  *)
(* the browse directory) and the files on disk.  Every handler runs to     *)
(* completion before the next event, so each handler is one action.        *)
(*                                                                         *)
(* Strings whose characters the code inspects (labels, dictionary keys of  *)
(* the JSON document, file names) are sequences of one-character strings.  *)
(*                                                                         *)
(* A handler that raises stops where it raised, keeps the assignments it   *)
(* had already made, and the event loop goes on with the next event (the   *)
(* exception is printed by the binding's hook); "last" records the raise.  *)
(***************************************************************************)
EXTENDS Integers, Sequences, FiniteSets, TLC

VARIABLES
    nodes,            \* app.nodes: node id -> [x, y, text]
    edges,            \* app.edges: defaultdict(set), node id -> set of ids
    views,            \* MainWindow.nodes: node id -> position of its widget
    selected_nodes,   \* MainWindow.selected_nodes
    unsaved_changes,  \* MainWindow.unsaved_changes
    filename,         \* MainWindow.filename (None or a path)
    browse_dir,       \* MainWindow.browse_dir
    disk,             \* the file system: path -> JSON document
    status,           \* the message the status bar shows
    last,             \* the handler that ran last, on which node, how it
                      \* ended, and what ran before it (see Before)
    events            \* the number of events handled so far

vars == <<nodes, edges, views, selected_nodes, unsaved_changes, filename,
          browse_dir, disk, status, last, events>>

----------------------------------------------------------------------------
(* Bounds of the model *)

\* Add node is offered while the generated id stays within MaxId.
MaxId == 3

\* The event loop is followed for MaxEvents events.
MaxEvents == 5

\* Points of the canvas a context-menu click can hit.
ClickPoints == { <<40, 40>> }

\* Points of the canvas a drop can land on.
DropPoints == { <<100, 81>> }

\* Texts the user can type into the rename prompt.
RenameInputs == { <<>>, <<"a">> }

\* Paths the user can type into the "Save as" prompt.
SavePathInputs ==
    { <<"/", "t", "/", "d">>,
      <<"/", "t", "/", "d", ".", "j", "s", "o", "n">> }

\* The longest label the user types into the rename prompt.
MaxLabelLen == 33

----------------------------------------------------------------------------
(* Program constants *)

\* None, and the empty string a cancelled file dialog returns: both are
\* "not filename" to the code.
None == <<>>

VERSION == "v0.0.0"

FILENAME_EXT == <<"j", "s", "o", "n">>

SIZE == <<32, 32>>

HOME == <<"/", "h">>

NODE_LABEL_MAX_LENGTH == 32

----------------------------------------------------------------------------
(* Strings *)

Digits == <<"0", "1", "2", "3", "4", "5", "6", "7", "8", "9">>

\* str(n) for n >= 0
RECURSIVE IntToStr(_)
IntToStr(n) ==
    IF n < 10 THEN << Digits[n + 1] >>
    ELSE IntToStr(n \div 10) \o << Digits[(n % 10) + 1] >>

DigitVal(c) == CHOOSE d \in 0..9 : Digits[d + 1] = c

\* int(s) for a non-empty string of decimal digits
RECURSIVE StrToInt(_)
StrToInt(s) ==
    IF Len(s) = 1 THEN DigitVal(s[1])
    ELSE 10 * StrToInt(SubSeq(s, 1, Len(s) - 1)) + DigitVal(s[Len(s)])

\* int(s) succeeds: s is a non-empty string of decimal digits (the signs,
\* blanks and underscores int() also takes are not among the inputs).
IsInt(s) == s # <<>> /\ \A i \in DOMAIN s : \E d \in DOMAIN Digits : Digits[d] = s[i]

\* A text of n characters, no two neighbours alike.
Label(n) == [i \in 1..n |-> Digits[(i % 10) + 1]]

\* 'Node %s' % node_id
DefaultText(id) == <<"N", "o", "d", "e", " ">> \o IntToStr(id)

EndsWith(s, suffix) ==
    /\ Len(s) >= Len(suffix)
    /\ SubSeq(s, Len(s) - Len(suffix) + 1, Len(s)) = suffix

LowerChar(c) ==
    CASE c = "J" -> "j" [] c = "S" -> "s" [] c = "O" -> "o" [] c = "N" -> "n"
      [] c = "T" -> "t" [] c = "D" -> "d" [] c = "H" -> "h"
      [] OTHER -> c

Lower(s) == [i \in 1..Len(s) |-> LowerChar(s[i])]

\* os.path.dirname for a POSIX path
LastSlash(p) ==
    IF \E i \in 1..Len(p) : p[i] = "/"
    THEN CHOOSE i \in 1..Len(p) :
            /\ p[i] = "/"
            /\ \A j \in (i + 1)..Len(p) : p[j] # "/"
    ELSE 0

RECURSIVE RStripSlash(_)
RStripSlash(s) ==
    IF s # <<>> /\ s[Len(s)] = "/" THEN RStripSlash(SubSeq(s, 1, Len(s) - 1))
    ELSE s

Dirname(p) ==
    LET head == SubSeq(p, 1, LastSlash(p))
    IN  IF head # <<>> /\ \E i \in 1..Len(head) : head[i] # "/"
        THEN RStripSlash(head)
        ELSE head

----------------------------------------------------------------------------
(* Dictionaries *)

Del(f, k) == [j \in DOMAIN f \ {k} |-> f[j]]

Put(f, k, v) == [j \in DOMAIN f \cup {k} |-> IF j = k THEN v ELSE f[j]]

Range(s) == { s[i] : i \in 1..Len(s) }

\* The edge relation of an edge map: the pairs (source, target).
EdgeRel(e) == { p \in (DOMAIN e) \X (UNION { e[k] : k \in DOMAIN e }) :
                    p[2] \in e[p[1]] }

----------------------------------------------------------------------------
(* The JSON document: json.dump in save, json.load in open *)

\* The lists a set can be written as (list(v): the order is the set's own).
ListsOf(S) == { s \in [1..Cardinality(S) -> S] : Range(s) = S }

\* json.dump turns the integer keys of a dictionary into strings.
JsonKeys(f) == { IntToStr(i) : i \in DOMAIN f }

JsonNodes(n) ==
    [k \in JsonKeys(n) |-> n[CHOOSE i \in DOMAIN n : IntToStr(i) = k]]

EdgeLists(e) ==
    { m \in [DOMAIN e -> UNION { ListsOf(e[i]) : i \in DOMAIN e }] :
        \A i \in DOMAIN e : m[i] \in ListsOf(e[i]) }

\* {k: list(v) for k, v in app.edges.items()}, keys written as strings
JsonEdges(e) ==
    { [k \in JsonKeys(e) |-> l[CHOOSE i \in DOMAIN e : IntToStr(i) = k]] :
        l \in EdgeLists(e) }

\* The documents save can write for (n, e).
Dump(n, e) ==
    { [version |-> VERSION, nodes |-> JsonNodes(n), edges |-> je] :
        je \in JsonEdges(e) }

\* {int(k): v for k, v in data['nodes'].items()}
LoadNodes(jn) ==
    [i \in { StrToInt(k) : k \in DOMAIN jn } |->
        jn[CHOOSE k \in DOMAIN jn : StrToInt(k) = i]]

\* A variant of LoadEdges that skips the entries whose list is empty.
LoadEdges_DropEmpty(je) ==
    [i \in { StrToInt(k) : k \in { j \in DOMAIN je : je[j] # <<>> } } |->
        Range(je[CHOOSE k \in DOMAIN je : StrToInt(k) = i])]

\* defaultdict(set, {int(k): set(v) for k, v in data['edges'].items()})
LoadEdges(je) ==
    [i \in { StrToInt(k) : k \in DOMAIN je } |->
        Range(je[CHOOSE k \in DOMAIN je : StrToInt(k) = i])]

\* initialize_nodes: one widget per node, moved to the node's position.
InitializeNodes(n) == [i \in DOMAIN n |-> << n[i].x, n[i].y >>]

----------------------------------------------------------------------------
(* The files that exist when the program starts *)

SparsePath == <<"/", "t", "/", "s", ".", "j", "s", "o", "n">>

OldPath == <<"/", "t", "/", "o", ".", "j", "s", "o", "n">>

\* A document of this version in which nodes 2 and 3 have no entry in
\* "edges" (a missing entry means no outgoing edges).
SparseFile ==
    [version |-> VERSION,
     nodes |-> [k \in { <<"1">>, <<"2">>, <<"3">> } |->
                  CASE k = <<"1">> ->
                         [x |-> 40, y |-> 40, text |-> DefaultText(1)]
                    [] k = <<"2">> ->
                         [x |-> 84, y |-> 65, text |-> DefaultText(2)]
                    [] OTHER ->
                         [x |-> 40, y |-> 40, text |-> <<"a">>]],
     edges |-> [k \in { <<"1">> } |-> << 2 >>]]

\* A document written by another version of the application.
OldFile ==
    [version |-> "v0.0.1",
     nodes |-> [k \in { <<"1">> } |->
                  [x |-> 40, y |-> 40, text |-> DefaultText(1)]],
     edges |-> [k \in { <<"1">> } |-> << >>]]

InitDisk ==
    [p \in { SparsePath, OldPath } |->
        IF p = SparsePath THEN SparseFile ELSE OldFile]

\* Files that open cannot load.  A file json.load rejects is kept as its
\* bytes; the others are JSON objects with a key missing or with an id key
\* that is no integer.
GarbagePath == <<"/", "t", "/", "g">>

NoVersionPath == <<"/", "t", "/", "v">>

NoNodesPath == <<"/", "t", "/", "n">>

NoEdgesPath == <<"/", "t", "/", "e">>

BadNodeKeyPath == <<"/", "t", "/", "k">>

BadEdgeKeyPath == <<"/", "t", "/", "l">>

OneNode == [k \in { <<"1">> } |-> [x |-> 84, y |-> 65, text |-> <<"a">>]]

MalformedDisk ==
    [p \in { GarbagePath, NoVersionPath, NoNodesPath, NoEdgesPath,
             BadNodeKeyPath, BadEdgeKeyPath } |->
        CASE p = GarbagePath -> [bytes |-> <<"{">>]
          [] p = NoVersionPath ->
               [nodes |-> OneNode, edges |-> [k \in { <<"1">> } |-> << >>]]
          [] p = NoNodesPath ->
               [version |-> VERSION, edges |-> [k \in { <<"1">> } |-> << >>]]
          [] p = NoEdgesPath ->
               [version |-> VERSION, nodes |-> OneNode]
          [] p = BadNodeKeyPath ->
               [version |-> VERSION,
                nodes |-> [k \in { <<"x">> } |-> OneNode[<<"1">>]],
                edges |-> [k \in { <<"x">> } |-> << >>]]
          [] OTHER ->
               [version |-> VERSION, nodes |-> OneNode,
                edges |-> [k \in { <<"x">> } |-> << >>]]]

\* json.load(f) returns and data['version'] is there.
HasVersion(file) == "bytes" \notin DOMAIN file /\ "version" \in DOMAIN file

\* A variant of VersionAsks that never asks.
VersionAsks_Never(file) == FALSE

\* data['version'] != VERSION: the "open it anyway?" question is asked.
VersionAsks(file) == file.version # VERSION

\* {int(k): v for k, v in data['nodes'].items()} raises.
NodesFail(file) ==
    "nodes" \notin DOMAIN file \/ \E k \in DOMAIN file.nodes : ~IsInt(k)

\* {int(k): set(v) for k, v in data['edges'].items()} raises.
EdgesFail(file) ==
    "edges" \notin DOMAIN file \/ \E k \in DOMAIN file.edges : ~IsInt(k)

----------------------------------------------------------------------------
(* Helpers of the handlers *)

Empty == [k \in {} |-> {}]

\* statusBar().showMessage('Ready.')
Ready == [msg |-> "Ready.", ids |-> {}, at |-> <<0, 0>>]

\* _update_statusbar_on_selection: '' or 'Selected nodes (..): #..'
SelectionMsg(sel) ==
    [msg |-> IF sel = {} THEN "" ELSE "Selected nodes", ids |-> sel,
     at |-> <<0, 0>>]

\* dropEvent: 'Moved node {} to ({}, {}).' with the drop point
MovedMsg(n, pt) == [msg |-> "Moved node", ids |-> {n}, at |-> pt]

\* What "last" keeps of the handler before the last one: whether it was a
\* completed save or a connect, the two handlers a property looks back to.
Before ==
    CASE last.op \in {"save", "save_as"} /\ last.res = "ok" -> "save"
      [] last.op = "connect_nodes" -> "connect_nodes"
      [] OTHER -> "other"

\* closeEvent accepted the close: the window is gone and app.exec_ returned.
Exited == last.op = "close" /\ last.res \in {"accepted", "accepted:Yes", "accepted:No"}

\* The handler returns (or raises) and the event loop takes the next event.
Done(op, id, res) ==
    /\ ~Exited
    /\ events < MaxEvents
    /\ events' = events + 1
    /\ last' = [op |-> op, id |-> id, res |-> res, prev |-> Before]

\* app.edges[k]: a defaultdict creates the missing entry on lookup.
Lookup(e, k) == IF k \in DOMAIN e THEN e[k] ELSE {}

\* A variant of EdgeAdd that assigns the target instead of adding it.
EdgeAdd_Overwrite(e, src, trg) == Put(e, src, {trg})

\* A variant of EdgeAdd that toggles the target.
EdgeAdd_Toggle(e, src, trg) ==
    Put(e, src, IF trg \in Lookup(e, src) THEN Lookup(e, src) \ {trg}
                ELSE Lookup(e, src) \cup {trg})

\* app.edges[src_id].add(trg_id)
EdgeAdd(e, src, trg) == Put(e, src, Lookup(e, src) \cup {trg})

\* A variant of EdgeDiscard that drops the source's whole target set.
EdgeDiscard_Clear(e, src, trg) == Put(e, src, {})

\* app.edges[src_id].discard(trg_id)
EdgeDiscard(e, src, trg) == Put(e, src, Lookup(e, src) \ {trg})

\* A variant of ConnectPairs without the test src_id != trg_id.
RECURSIVE ConnectPairs_Loops(_, _)
ConnectPairs_Loops(e, pairs) ==
    IF pairs = {} THEN e
    ELSE LET p == CHOOSE q \in pairs : TRUE
         IN  ConnectPairs_Loops(EdgeAdd(e, p[1], p[2]), pairs \ {p})

\* The loop of connect_nodes over itertools.product(selected, repeat=2).
RECURSIVE ConnectPairs(_, _)
ConnectPairs(e, pairs) ==
    IF pairs = {} THEN e
    ELSE LET p == CHOOSE q \in pairs : TRUE
         IN  ConnectPairs(IF p[1] # p[2] THEN EdgeAdd(e, p[1], p[2]) ELSE e,
                          pairs \ {p})

\* The loop of disconnect_nodes.
RECURSIVE DisconnectPairs(_, _)
DisconnectPairs(e, pairs) ==
    IF pairs = {} THEN e
    ELSE LET p == CHOOSE q \in pairs : TRUE
         IN  DisconnectPairs(
                 IF p[1] # p[2] THEN EdgeDiscard(e, p[1], p[2]) ELSE e,
                 pairs \ {p})

Max(S) == CHOOSE m \in S : \A k \in S : k <= m

\* A variant of NextId that counts the nodes.
NextId_Count(n) == Cardinality(DOMAIN n) + 1

\* max(app.nodes.keys() or [0]) + 1
NextId(n) == (IF DOMAIN n = {} THEN 0 ELSE Max(DOMAIN n)) + 1

\* del app.edges[n]; for v in app.edges.values(): v.discard(n)
DeleteEdges(e, n) == [k \in DOMAIN e \ {n} |-> e[k] \ {n}]

\* A variant of ClickSelection that tests is_selected before it clears.
ClickSelection_Stale(sel, n, ctrl) ==
    LET cleared == IF ctrl THEN sel ELSE {}
    IN  IF n \in sel THEN cleared \ {n} ELSE cleared \cup {n}

\* NodeWidget.mousePressEvent on the selection.
ClickSelection(sel, n, ctrl) ==
    LET cleared == IF ctrl THEN sel ELSE {}
    IN  IF n \in cleared THEN cleared \ {n} ELSE cleared \cup {n}

\* dropEvent: the widget's centre lands on the drop point.
DropPos(pt) == << pt[1] - (SIZE[1] \div 2), pt[2] - (SIZE[2] \div 2) >>

\* A variant of AppendExt that appends the extension to every path.
AppendExt_Always(p) == p \o <<".">> \o FILENAME_EXT

\* draw_node_labels: the text handed to drawText for a label.
LabelText(text) ==
    IF Len(text) > NODE_LABEL_MAX_LENGTH - 3
    THEN SubSeq(text, 1, NODE_LABEL_MAX_LENGTH - 4) \o <<".", ".", ".">>
    ELSE text

\* draw_node_labels: the texts drawn for the views, by node id.
DrawNodeLabels(n, v) == [i \in DOMAIN v |-> LabelText(n[i].text)]

\* save_as: append the document extension when it is missing.
AppendExt(p) ==
    IF EndsWith(Lower(p), <<".">> \o FILENAME_EXT) THEN p
    ELSE (IF EndsWith(p, <<".">>) THEN p ELSE p \o <<".">>) \o FILENAME_EXT

----------------------------------------------------------------------------
(* The state after construction: MainApp and MainWindow class attributes *)

Init ==
    /\ nodes = Empty
    /\ edges = Empty
    /\ views = Empty
    /\ selected_nodes = {}
    /\ unsaved_changes = FALSE
    /\ filename = None
    /\ browse_dir = HOME
    /\ disk = InitDisk
    /\ status = Ready
    /\ last = [op |-> "init", id |-> 0, res |-> "ok", prev |-> "other"]
    /\ events = 0

----------------------------------------------------------------------------
(* Handlers *)

\* MainWindow.add_node, from the context menu of the empty canvas.
AddNode(pt) ==
    LET node_id == NextId(nodes)
    IN  /\ node_id <= MaxId
        /\ nodes' = Put(nodes, node_id,
                        [x |-> pt[1], y |-> pt[2], text |-> DefaultText(node_id)])
        /\ edges' = Put(edges, node_id, {})
        /\ views' = Put(views, node_id, pt)
        /\ unsaved_changes' = TRUE
        /\ Done("add_node", node_id, "ok")
        /\ UNCHANGED <<selected_nodes, filename, browse_dir, disk, status>>

\* NodeWidget.mousePressEvent
ClickNode(n, button, ctrl) ==
    /\ n \in DOMAIN views
    /\ IF button \in {"Left", "Right"}
       THEN /\ selected_nodes' = ClickSelection(selected_nodes, n, ctrl)
            /\ status' = SelectionMsg(selected_nodes')
            /\ Done("click", n, "ok")
       ELSE /\ UNCHANGED <<selected_nodes, status>>
            /\ Done("click", n, "ignored")
    /\ UNCHANGED <<nodes, edges, views, unsaved_changes, filename, browse_dir,
                   disk>>

\* MainWindow.mousePressEvent: a click on the empty canvas.
BackgroundClick(button, ctrl) ==
    /\ IF button \in {"Left", "Right"} /\ ~ctrl
       THEN /\ selected_nodes' = {}
            /\ status' = SelectionMsg({})
            /\ Done("background_click", 0, "ok")
       ELSE /\ UNCHANGED <<selected_nodes, status>>
            /\ Done("background_click", 0, "ignored")
    /\ UNCHANGED <<nodes, edges, views, unsaved_changes, filename, browse_dir,
                   disk>>

\* MainWindow.connect_nodes
ConnectNodes ==
    /\ edges' = ConnectPairs(edges, selected_nodes \X selected_nodes)
    /\ unsaved_changes' = TRUE
    /\ Done("connect_nodes", 0, "ok")
    /\ UNCHANGED <<nodes, views, selected_nodes, filename, browse_dir, disk, status>>

\* MainWindow.disconnect_nodes
DisconnectNodes ==
    /\ edges' = DisconnectPairs(edges, selected_nodes \X selected_nodes)
    /\ unsaved_changes' = TRUE
    /\ Done("disconnect_nodes", 0, "ok")
    /\ UNCHANGED <<nodes, views, selected_nodes, filename, browse_dir, disk, status>>

\* NodeWidget.rename: the prompt returns (text, ok).
Rename(n, text, ok) ==
    /\ n \in DOMAIN views
    /\ IF n \notin DOMAIN nodes
       THEN \* node_data = app.nodes[self.node_id] raises
            /\ Done("rename", n, "KeyError")
            /\ UNCHANGED <<nodes, unsaved_changes>>
       ELSE /\ nodes' = IF ok THEN [nodes EXCEPT ![n].text = text] ELSE nodes
            /\ unsaved_changes' = TRUE
            /\ Done("rename", n, IF ok THEN "ok" ELSE "cancel")
    /\ UNCHANGED <<edges, views, selected_nodes, filename, browse_dir, disk, status>>

\* NodeWidget.delete: the confirmation dialog returns yes or no.
Delete(n, yes) ==
    /\ n \in DOMAIN views
    /\ IF n \notin DOMAIN nodes
       THEN \* node_data = app.nodes[self.node_id] raises
            /\ Done("delete", n, "KeyError:nodes")
            /\ UNCHANGED <<nodes, edges, views, unsaved_changes>>
       ELSE IF ~yes
       THEN /\ unsaved_changes' = TRUE
            /\ Done("delete", n, "declined")
            /\ UNCHANGED <<nodes, edges, views>>
       ELSE IF n \notin DOMAIN edges
       THEN \* del app.nodes[n] is done, del app.edges[n] raises
            /\ nodes' = Del(nodes, n)
            /\ Done("delete", n, "KeyError:edges")
            /\ UNCHANGED <<edges, views, unsaved_changes>>
       ELSE /\ nodes' = Del(nodes, n)
            /\ edges' = DeleteEdges(edges, n)
            /\ views' = Del(views, n)
            /\ unsaved_changes' = TRUE
            /\ Done("delete", n, "ok")
    /\ UNCHANGED <<selected_nodes, filename, browse_dir, disk, status>>

\* MainWindow.dropEvent with NodeWidget.move: n is the dragged widget,
\* marker tells whether the payload carries NODE_MIMETYPE.
Drop(n, pt, marker) ==
    /\ n \in DOMAIN views
    /\ IF ~marker
       THEN /\ Done("drop", n, "ignored")
            /\ UNCHANGED <<nodes, views, unsaved_changes, status>>
       ELSE /\ views' = [views EXCEPT ![n] = DropPos(pt)]
            /\ IF n \notin DOMAIN nodes
               THEN \* app.nodes[self.node_id]['x'] = ... raises
                    /\ Done("drop", n, "KeyError")
                    /\ UNCHANGED <<nodes, unsaved_changes, status>>
               ELSE /\ nodes' = [nodes EXCEPT ![n].x = DropPos(pt)[1],
                                              ![n].y = DropPos(pt)[2]]
                    /\ unsaved_changes' = TRUE
                    /\ status' = MovedMsg(n, pt)
                    /\ Done("drop", n, "ok")
    /\ UNCHANGED <<edges, selected_nodes, filename, browse_dir, disk>>

\* MainWindow.new
New ==
    /\ views' = Empty
    /\ nodes' = Empty
    /\ edges' = Empty
    /\ filename' = None
    /\ unsaved_changes' = FALSE
    /\ Done("new", 0, "ok")
    /\ UNCHANGED <<selected_nodes, browse_dir, disk, status>>

\* MainWindow.open: pick is the path chosen in the file dialog (None when
\* the dialog is cancelled), anyway answers the version question.
Open(pick, anyway) ==
    /\ pick = None \/ pick \in DOMAIN disk
    /\ IF pick = None
       THEN /\ Done("open", 0, "cancel")
            /\ UNCHANGED <<nodes, edges, views, unsaved_changes, filename,
                           browse_dir>>
       ELSE IF ~HasVersion(disk[pick])
       THEN \* json.load or data['version'] raises
            /\ Done("open", 0, "error")
            /\ UNCHANGED <<nodes, edges, views, unsaved_changes, filename,
                           browse_dir>>
       ELSE IF VersionAsks(disk[pick]) /\ ~anyway
       THEN /\ Done("open", 0, "declined")
            /\ UNCHANGED <<nodes, edges, views, unsaved_changes, filename,
                           browse_dir>>
       ELSE IF NodesFail(disk[pick])
       THEN \* the comprehension raises before app.nodes is assigned
            /\ Done("open", 0, "error")
            /\ UNCHANGED <<nodes, edges, views, unsaved_changes, filename,
                           browse_dir>>
       ELSE IF EdgesFail(disk[pick])
       THEN \* app.nodes is assigned, then the edges comprehension raises
            /\ nodes' = LoadNodes(disk[pick].nodes)
            /\ Done("open", 0, "error")
            /\ UNCHANGED <<edges, views, unsaved_changes, filename,
                           browse_dir>>
       ELSE /\ nodes' = LoadNodes(disk[pick].nodes)
            /\ edges' = LoadEdges(disk[pick].edges)
            /\ views' = InitializeNodes(LoadNodes(disk[pick].nodes))
            /\ filename' = pick
            /\ browse_dir' = Dirname(pick)
            /\ unsaved_changes' = FALSE
            /\ Done("open", 0, "ok")
    /\ UNCHANGED <<selected_nodes, disk, status>>

\* The body of MainWindow.save once a file name is bound.
WriteFile(path) ==
    /\ \E doc \in Dump(nodes, edges) : disk' = Put(disk, path, doc)
    /\ unsaved_changes' = FALSE

\* MainWindow.save_as: pick is the path typed into the dialog (None when the
\* dialog is cancelled).
SaveAs(pick) ==
    /\ IF pick = None
       THEN /\ Done("save_as", 0, "cancel")
            /\ UNCHANGED <<unsaved_changes, filename, browse_dir, disk>>
       ELSE /\ filename' = AppendExt(pick)
            /\ browse_dir' = Dirname(AppendExt(pick))
            /\ WriteFile(AppendExt(pick))
            /\ Done("save_as", 0, "ok")
    /\ UNCHANGED <<nodes, edges, views, selected_nodes, status>>

\* MainWindow.save: without a bound file name it is save_as.
Save(pick) ==
    /\ IF filename = None
       THEN IF pick = None
            THEN /\ Done("save", 0, "cancel")
                 /\ UNCHANGED <<unsaved_changes, filename, browse_dir, disk>>
            ELSE /\ filename' = AppendExt(pick)
                 /\ browse_dir' = Dirname(AppendExt(pick))
                 /\ WriteFile(AppendExt(pick))
                 /\ Done("save", 0, "ok")
       ELSE /\ pick = None
            /\ WriteFile(filename)
            /\ Done("save", 0, "ok")
            /\ UNCHANGED <<filename, browse_dir>>
    /\ UNCHANGED <<nodes, edges, views, selected_nodes, status>>

\* A variant of ConfirmExit that lets the window close after any Yes.
ConfirmExit_YesAlways(reply, pick) ==
    ~unsaved_changes \/ reply \in {"Yes", "No"}

\* MainWindow.confirm_exit, the value it returns: reply answers the "Save
\* changes" question, pick is the path typed when the save asks for one.
ConfirmExit(reply, pick) ==
    IF ~unsaved_changes THEN TRUE
    ELSE IF reply = "Yes" THEN filename # None \/ pick # None
    ELSE reply = "No"

\* MainWindow.closeEvent: the question is asked only with unsaved changes,
\* and the save it starts on Yes is MainWindow.save.
Close(reply, pick) ==
    /\ IF unsaved_changes /\ reply = "Yes"
       THEN IF filename = None
            THEN IF pick = None
                 THEN UNCHANGED <<unsaved_changes, filename, browse_dir, disk>>
                 ELSE /\ filename' = AppendExt(pick)
                      /\ browse_dir' = Dirname(AppendExt(pick))
                      /\ WriteFile(AppendExt(pick))
            ELSE /\ pick = None
                 /\ WriteFile(filename)
                 /\ UNCHANGED <<filename, browse_dir>>
       ELSE /\ pick = None
            /\ UNCHANGED <<unsaved_changes, filename, browse_dir, disk>>
    /\ Done("close", 0,
            IF ConfirmExit(reply, pick)
            THEN (IF unsaved_changes THEN "accepted:" \o reply ELSE "accepted")
            ELSE "refused:" \o reply)
    /\ UNCHANGED <<nodes, edges, views, selected_nodes, status>>

----------------------------------------------------------------------------
(* The event loop *)

Replies == {"Yes", "No", "Cancel"}

Buttons == {"Left", "Right", "Middle"}

Next ==
    \/ \E pt \in ClickPoints : AddNode(pt)
    \/ \E n \in DOMAIN views, b \in Buttons, ctrl \in BOOLEAN : ClickNode(n, b, ctrl)
    \/ \E b \in Buttons, ctrl \in BOOLEAN : BackgroundClick(b, ctrl)
    \/ ConnectNodes
    \/ DisconnectNodes
    \/ \E n \in DOMAIN views, t \in RenameInputs, ok \in BOOLEAN : Rename(n, t, ok)
    \/ \E n \in DOMAIN views, yes \in BOOLEAN : Delete(n, yes)
    \/ \E n \in DOMAIN views, pt \in DropPoints, m \in BOOLEAN : Drop(n, pt, m)
    \/ New
    \/ \E p \in DOMAIN disk \cup {None}, a \in BOOLEAN : Open(p, a)
    \/ \E p \in SavePathInputs \cup {None} : SaveAs(p)
    \/ \E p \in SavePathInputs \cup {None} : Save(p)
    \/ \E r \in Replies, p \in SavePathInputs \cup {None} : Close(r, p)

Spec == Init /\ [][Next]_vars

\* The program started in a directory of files that open cannot load.
InitMalformed ==
    /\ nodes = Empty
    /\ edges = Empty
    /\ views = Empty
    /\ selected_nodes = {}
    /\ unsaved_changes = FALSE
    /\ filename = None
    /\ browse_dir = HOME
    /\ disk = MalformedDisk
    /\ status = Ready
    /\ last = [op |-> "init", id |-> 0, res |-> "ok", prev |-> "other"]
    /\ events = 0

SpecMalformed == InitMalformed /\ [][Next]_vars

\* Labels around the length at which draw_node_labels truncates.
LabelInputs == { Label(n) : n \in (NODE_LABEL_MAX_LENGTH - 4)..MaxLabelLen }

\* The user adds nodes and gives them long labels.
NextLabels ==
    \/ \E pt \in ClickPoints : AddNode(pt)
    \/ \E n \in DOMAIN views, t \in LabelInputs, ok \in BOOLEAN : Rename(n, t, ok)

SpecLabels == Init /\ [][NextLabels]_vars

----------------------------------------------------------------------------
(* Properties *)

\* The ordered pairs of distinct members of a selection.
Pairs(S) == { p \in S \X S : p[1] # p[2] }

\* The last handler was a Delete the user confirmed.
ConfirmedDelete ==
    last.op = "delete" /\ last.res \in {"ok", "KeyError:edges"}

\* C1: every id in the edge map, as a source key or as a member of a target
\* set, is the id of a node.
C1_EdgeIntegrity ==
    \A k \in DOMAIN edges : k \in DOMAIN nodes /\ edges[k] \subseteq DOMAIN nodes

\* C2: a confirmed Delete of node N completes without error and leaves N
\* absent from the node set, from the keys of the edge map, from every
\* target set and from the view mapping.
C2_DeleteRemoves ==
    ConfirmedDelete =>
        /\ last.res = "ok"
        /\ last.id \notin DOMAIN nodes
        /\ last.id \notin DOMAIN edges
        /\ \A k \in DOMAIN edges : last.id \notin edges[k]
        /\ last.id \notin DOMAIN views

\* C3: connect-selected with selection S makes the edge relation the previous
\* one united with the ordered pairs of distinct members of S; no edge with
\* an endpoint outside S is added or removed.
C3_ConnectExact ==
    [][last'.op = "connect_nodes" =>
        /\ EdgeRel(edges') = EdgeRel(edges) \cup Pairs(selected_nodes)
        /\ \A p \in (EdgeRel(edges') \ EdgeRel(edges)) \cup
                     (EdgeRel(edges) \ EdgeRel(edges')) :
              p[1] \in selected_nodes /\ p[2] \in selected_nodes]_vars

\* Connect-selected has run on a selection of three nodes and its six
\* ordered pairs are edges.
C3_Witness ==
    /\ last.op = "connect_nodes"
    /\ Cardinality(selected_nodes) = 3
    /\ Cardinality(Pairs(selected_nodes)) = 6
    /\ Pairs(selected_nodes) \subseteq EdgeRel(edges)

\* C4: connect-selected run twice in a row leaves the edge map after the
\* second run equal to the edge map after the first.
C4_ConnectIdempotent ==
    [][(last.op = "connect_nodes" /\ last'.op = "connect_nodes") =>
            edges' = edges]_vars

\* Connect-selected has run twice in a row on at least two selected nodes.
C4_Witness ==
    /\ last.op = "connect_nodes"
    /\ last.prev = "connect_nodes"
    /\ Cardinality(selected_nodes) >= 2
    /\ Pairs(selected_nodes) \subseteq EdgeRel(edges)

\* C5: disconnect-selected with selection S completes without raising and
\* removes exactly the edges between distinct members of S (an absent edge
\* or a missing edge-map entry is a no-op); every other edge is untouched.
C5_DisconnectExact ==
    [][last'.op = "disconnect_nodes" =>
        /\ last'.res = "ok"
        /\ EdgeRel(edges') = EdgeRel(edges) \ Pairs(selected_nodes)]_vars

\* Disconnect-selected has run on at least two selected nodes, one of them
\* with an empty target set, and an edge outside the selection is still
\* there.
C5_Witness ==
    /\ last.op = "disconnect_nodes"
    /\ Cardinality(selected_nodes) >= 2
    /\ \E n \in selected_nodes : n \in DOMAIN edges /\ edges[n] = {}
    /\ \E p \in EdgeRel(edges) : p[1] \notin selected_nodes \/ p[2] \notin selected_nodes

\* C6: an Open of the bound path right after a completed Save yields the
\* same node ids, the same x, y and text for each node and the same target
\* set for each source id, and the version check asks nothing.
C6_RoundTrip ==
    [][(/\ last.op \in {"save", "save_as"}
        /\ last.res = "ok"
        /\ last'.op = "open"
        /\ last'.res = "ok"
        /\ filename' = filename) =>
            /\ disk[filename].version = VERSION
            /\ nodes' = nodes
            /\ edges' = edges]_vars

\* A document with nodes and edges has been saved and opened again.
C6_Witness ==
    /\ last.op = "open"
    /\ last.res = "ok"
    /\ last.prev = "save"
    /\ filename \in { AppendExt(p) : p \in SavePathInputs }
    /\ Cardinality(DOMAIN nodes) >= 2
    /\ EdgeRel(edges) # {}
    /\ \E n \in DOMAIN edges : edges[n] = {}

\* C7: Add node generates the id one greater than the maximum node id (1 for
\* an empty node set), which is no id of the node set; the node set grows by
\* that one entry, labelled "Node <id>", at the click position, with an
\* empty target set and a view; the other nodes are kept.
C7_AddNode ==
    [][last'.op = "add_node" =>
        LET id == last'.id
        IN  /\ IF DOMAIN nodes = {} THEN id = 1
               ELSE /\ id - 1 \in DOMAIN nodes
                    /\ \A k \in DOMAIN nodes : k < id
            /\ id \notin DOMAIN nodes
            /\ DOMAIN nodes' = DOMAIN nodes \cup {id}
            /\ \A k \in DOMAIN nodes : nodes'[k] = nodes[k]
            /\ id <= 9
            /\ nodes'[id].text = <<"N", "o", "d", "e", " ", Digits[id + 1]>>
            /\ << nodes'[id].x, nodes'[id].y >> \in ClickPoints
            /\ id \in DOMAIN edges' /\ edges'[id] = {}
            /\ DOMAIN views' = DOMAIN views \cup {id}
            /\ views'[id] = << nodes'[id].x, nodes'[id].y >>]_vars

\* A node has been added to a non-empty node set that has lost a node with
\* a smaller id.
C7_Witness ==
    /\ last.op = "add_node"
    /\ last.id >= 2
    /\ last.id \in DOMAIN nodes
    /\ \E k \in 1..(last.id - 1) : k \notin DOMAIN nodes

\* C8: the unsaved-changes flag is true right after every mutating action
\* (add node, drop, confirmed rename, confirmed delete, connect, disconnect)
\* and false right after a completed Save or Save As, a completed Open, and
\* New.
C8_FlagAfterAction ==
    /\ (\/ last.op \in {"add_node", "connect_nodes", "disconnect_nodes"}
        \/ last.op \in {"drop", "rename"} /\ last.res = "ok"
        \/ ConfirmedDelete) => unsaved_changes
    /\ (\/ last.op \in {"save", "save_as", "open"} /\ last.res = "ok"
        \/ last.op = "new") => ~unsaved_changes

\* C9: Rename on node N leaves N's label unchanged when the prompt is
\* cancelled or confirmed with empty input and sets it to t when confirmed
\* with non-empty input t; the other nodes, N's position, the node set, the
\* edge map and the selection are unchanged.
C9_Rename ==
    [][\A n \in DOMAIN views, t \in RenameInputs, ok \in BOOLEAN :
        (n \in DOMAIN nodes /\ Rename(n, t, ok)) =>
            /\ nodes'[n].text = IF ok /\ t # <<>> THEN t ELSE nodes[n].text
            /\ DOMAIN nodes' = DOMAIN nodes
            /\ nodes'[n].x = nodes[n].x /\ nodes'[n].y = nodes[n].y
            /\ \A k \in DOMAIN nodes \ {n} : nodes'[k] = nodes[k]
            /\ edges' = edges
            /\ selected_nodes' = selected_nodes]_vars

\* C10: after New the node set, the edge map and the view mapping are empty,
\* the selection is empty, the unsaved-changes flag is false and no file
\* path is bound.
C10_NewResets ==
    last.op = "new" =>
        /\ nodes = Empty
        /\ edges = Empty
        /\ views = Empty
        /\ selected_nodes = {}
        /\ ~unsaved_changes
        /\ filename = None


\* C11: a close request is accepted exactly when there are no unsaved
\* changes, or the user answers No, or answers Yes and the save completes;
\* it is refused on Cancel and on Yes followed by a cancelled Save As.  A
\* close accepted after Yes has written the document and cleared the flag;
\* a refused close leaves document, views, selection, file name, flag and
\* files as they were.
C11_ExitProtocol ==
    [][\A reply \in Replies, pick \in SavePathInputs \cup {None} :
          Close(reply, pick) =>
            LET accepted == last'.res \in {"accepted", "accepted:Yes", "accepted:No"}
                refused  == last'.res \in {"refused:Yes", "refused:Cancel"}
            IN  /\ accepted # refused
                /\ accepted <=> \/ ~unsaved_changes
                                \/ reply = "No"
                                \/ reply = "Yes" /\ (filename # None \/ pick # None)
                /\ refused <=> /\ unsaved_changes
                               /\ \/ reply = "Cancel"
                                  \/ reply = "Yes" /\ filename = None /\ pick = None
                /\ (accepted /\ unsaved_changes /\ reply = "Yes") =>
                      /\ filename' # None
                      /\ filename' \in DOMAIN disk'
                      /\ disk'[filename'] \in Dump(nodes, edges)
                      /\ ~unsaved_changes'
                /\ refused =>
                      UNCHANGED <<nodes, edges, views, selected_nodes, filename,
                                  unsaved_changes, disk>>
                /\ UNCHANGED <<nodes, edges, views, selected_nodes>>]_vars

\* A close accepted after Yes wrote a document with nodes to a new path.
C11_Witness ==
    /\ last.op = "close"
    /\ last.res = "accepted:Yes"
    /\ DOMAIN nodes # {}
    /\ filename \notin { SparsePath, OldPath, None }

\* A close refused because the Save As started by Yes was cancelled.
C11_RefusedWitness ==
    /\ last.op = "close"
    /\ last.res = "refused:Yes"
    /\ unsaved_changes

\* C12: opening a file written by another version asks for confirmation,
\* and only such a file asks; when the user declines, nodes, edges, views,
\* selection, file name, browse directory, flag and files are unchanged.
C12_DeclinedOpen ==
    [][\A p \in DOMAIN disk, a \in BOOLEAN :
          (Open(p, a) /\ HasVersion(disk[p])) =>
            /\ last'.res = "declined" <=> (disk[p].version # VERSION /\ ~a)
            /\ last'.res = "declined" =>
                 UNCHANGED <<nodes, edges, views, selected_nodes, filename,
                             browse_dir, unsaved_changes, disk>>]_vars

\* The user declined while a document with a selection was being edited.
C12_Witness ==
    /\ last.op = "open"
    /\ last.res = "declined"
    /\ DOMAIN nodes # {}
    /\ selected_nodes # {}
    /\ unsaved_changes

\* C13: an Open that fails on an unreadable or malformed file (invalid JSON,
\* a missing "version", "nodes" or "edges" key, an id key that is no
\* integer) leaves nodes, edges, views, file name and flag as they were,
\* whichever step of the loading failed.
C13_FailedOpen ==
    [][(last'.op = "open" /\ last'.res = "error") =>
          UNCHANGED <<nodes, edges, views, filename, unsaved_changes>>]_vars

\* C14: after every handler, completed or aborted, the ids that have a view
\* are exactly the ids of the node map.
C14_ViewSync == DOMAIN views = DOMAIN nodes

\* C15: a left or right click on node n without the modifier makes the
\* selection {n}; with the modifier it toggles n and leaves the other
\* members alone; no click on a node changes the node map, the edge map or
\* the unsaved-changes flag.
C15_NodeClick ==
    [][\A n \in DOMAIN views, b \in Buttons, ctrl \in BOOLEAN :
          ClickNode(n, b, ctrl) =>
            /\ (b \in {"Left", "Right"} /\ ~ctrl) => selected_nodes' = {n}
            /\ (b \in {"Left", "Right"} /\ ctrl) =>
                 /\ n \in selected_nodes' <=> n \notin selected_nodes
                 /\ selected_nodes' \ {n} = selected_nodes \ {n}
            /\ UNCHANGED <<nodes, edges, unsaved_changes>>]_vars

\* A click with the modifier added a node to a selection that had others.
C15_Witness ==
    /\ last.op = "click"
    /\ last.res = "ok"
    /\ last.id \in selected_nodes
    /\ Cardinality(selected_nodes) >= 2

\* What a drop with the marker does to a dragged view n whose node exists:
\* view and node entry of n get the centred position, nothing else moves,
\* and the flag is set.
DropMoves(n, pt) ==
    /\ n \in DOMAIN nodes
    /\ DOMAIN views' = DOMAIN views
    /\ DOMAIN nodes' = DOMAIN nodes
    /\ pt[1] - views'[n][1] = SIZE[1] \div 2
    /\ pt[2] - views'[n][2] = SIZE[2] \div 2
    /\ nodes'[n] = [x |-> views'[n][1], y |-> views'[n][2],
                    text |-> nodes[n].text]
    /\ \A k \in DOMAIN views \ {n} : views'[k] = views[k]
    /\ \A k \in DOMAIN nodes \ {n} : nodes'[k] = nodes[k]
    /\ unsaved_changes'
    /\ UNCHANGED <<edges, selected_nodes>>

\* C16: a drop without the node marker is rejected and changes nothing (no
\* position, no flag, no status message); a drop with the marker at (px, py)
\* moves only the dragged node to x = px - width \div 2, y = py - height
\* \div 2, writes these into that node's entry only, and sets the flag.
C16_Drop ==
    [][\A n \in DOMAIN views, pt \in DropPoints, marker \in BOOLEAN :
          Drop(n, pt, marker) =>
            IF marker THEN DropMoves(n, pt)
            ELSE UNCHANGED <<nodes, edges, views, selected_nodes,
                             unsaved_changes, filename, status>>]_vars

\* C16 on the drops of a view whose node is in the node map.
C16_DropOfNode ==
    [][\A n \in DOMAIN views \cap DOMAIN nodes, pt \in DropPoints,
          marker \in BOOLEAN :
          Drop(n, pt, marker) =>
            IF marker THEN DropMoves(n, pt)
            ELSE UNCHANGED <<nodes, edges, views, selected_nodes,
                             unsaved_changes, filename, status>>]_vars

\* C17: a handler that leaves the node set, every node's x, y and text, and
\* the edge relation as they were (a cancelled rename, a declined delete, a
\* connect or disconnect that adds or removes no edge) does not turn a false
\* unsaved-changes flag true.
C17_FlagTracksChange ==
    [][(~unsaved_changes /\ nodes' = nodes /\ EdgeRel(edges') = EdgeRel(edges))
          => ~unsaved_changes']_vars

\* The path ends with the document extension, whatever the case of letters.
HasExt(p) == EndsWith(Lower(p), <<".">> \o FILENAME_EXT)

\* The document (n, e) is what the file at path p holds, and no other file
\* was touched.
Written(p, n, e) ==
    /\ p \in DOMAIN disk'
    /\ disk'[p] \in Dump(n, e)
    /\ DOMAIN disk' = DOMAIN disk \cup {p}
    /\ \A q \in DOMAIN disk \ {p} : disk'[q] = disk[q]

\* C18: Save without a bound file name is Save As: when the path prompt is
\* cancelled nothing is written, the name stays unbound, the flag keeps its
\* value and the save reports failure; when a path is given, the path, with
\* the extension appended if it lacks it, becomes the bound name, the
\* document is written to it and the flag becomes false.  Save with a bound
\* name writes to that name without a prompt.
C18_SaveUnbound ==
    [][\A pick \in SavePathInputs \cup {None} :
          Save(pick) =>
            /\ IF filename # None
               THEN /\ pick = None
                    /\ last'.res = "ok"
                    /\ filename' = filename
                    /\ Written(filename, nodes, edges)
                    /\ ~unsaved_changes'
               ELSE IF pick = None
               THEN /\ last'.res = "cancel"
                    /\ UNCHANGED <<disk, filename, unsaved_changes>>
               ELSE /\ last'.res = "ok"
                    /\ HasExt(filename')
                    /\ HasExt(pick) => filename' = pick
                    /\ ~HasExt(pick) =>
                         \E suffix \in { FILENAME_EXT, <<".">> \o FILENAME_EXT } :
                            filename' = pick \o suffix
                    /\ Written(filename', nodes, edges)
                    /\ ~unsaved_changes'
            /\ UNCHANGED <<nodes, edges, views, selected_nodes>>]_vars

\* The first save of a new document bound the typed path and wrote to it.
C18_Witness ==
    /\ last.op = "save"
    /\ last.res = "ok"
    /\ events = 2
    /\ DOMAIN nodes # {}
    /\ filename \notin DOMAIN InitDisk \cup {None}
    /\ filename \in DOMAIN disk
    /\ ~unsaved_changes

\* C19: no handler ever leaves a node among its own targets, from the empty
\* document or from an opened document without self-loops; in particular a
\* connect on a selection of one node adds no edge.
C19_NoSelfLoops ==
    [][/\ \A k \in DOMAIN edges' : k \notin edges'[k]
       /\ (last'.op = "connect_nodes" /\ Cardinality(selected_nodes) <= 1) =>
             EdgeRel(edges') = EdgeRel(edges)]_vars

\* A connect ran on a selection of one existing node.
C19_Witness ==
    /\ last.op = "connect_nodes"
    /\ Cardinality(selected_nodes) = 1
    /\ selected_nodes \subseteq DOMAIN nodes
    /\ selected_nodes \subseteq DOMAIN edges

\* C20: in every reachable state the selection holds only ids of nodes in
\* the node map; so after a confirmed Delete, after New and after Open no
\* id that is absent from the node map is selected.
C20_SelectionValid == selected_nodes \subseteq DOMAIN nodes

\* C21: no handler changes the document (node ids, each node's x, y and
\* text, edge relation) and leaves the unsaved-changes flag false, except
\* New and a completed Open, which start the document the flag refers to.
C21_NoSilentEdit ==
    [][(nodes' # nodes \/ EdgeRel(edges') # EdgeRel(edges)) =>
          \/ unsaved_changes'
          \/ last'.op = "new"
          \/ last'.op = "open" /\ last'.res = "ok"]_vars

\* C22: right after add_node creates node n, also when n is the id of a
\* node deleted before, n has no targets and is a target of no node.
C22_FreshNodeIsolated ==
    [][last'.op = "add_node" =>
          /\ Lookup(edges', last'.id) = {}
          /\ \A k \in DOMAIN edges' : last'.id \notin edges'[k]]_vars

\* C23: with the unsaved-changes flag true, New, Open and Exit do not
\* replace or drop the document unless the user saved it or answered that
\* the changes may go: New and Open, which ask nothing about the changes,
\* leave the document as it is, and an accepted close follows a Yes that
\* saved or a No.
C23_NoSilentDiscard ==
    [][unsaved_changes =>
          /\ (last'.op = "new" \/ (last'.op = "open" /\ last'.res = "ok")) =>
                nodes' = nodes /\ EdgeRel(edges') = EdgeRel(edges)
          /\ (last'.op = "close" /\ last'.res = "accepted:Yes") =>
                /\ ~unsaved_changes'
                /\ filename' \in DOMAIN disk'
                /\ disk'[filename'] \in Dump(nodes, edges)
          /\ last'.op = "close" =>
                last'.res \in {"accepted:Yes", "accepted:No", "refused:Yes",
                               "refused:Cancel"}]_vars

\* C24: the text drawn for a node is the node's label itself when the label
\* has at most NODE_LABEL_MAX_LENGTH characters; when it has more, it is a
\* prefix of the label followed by "..."; either way it has at most
\* NODE_LABEL_MAX_LENGTH characters.
C24_LabelTruncation ==
    \A n \in DOMAIN views \cap DOMAIN nodes :
        LET text  == nodes[n].text
            drawn == DrawNodeLabels(nodes, views)[n]
        IN  /\ Len(text) <= NODE_LABEL_MAX_LENGTH => drawn = text
            /\ Len(text) > NODE_LABEL_MAX_LENGTH =>
                 \E k \in 0..Len(text) :
                    drawn = SubSeq(text, 1, k) \o <<".", ".", ".">>
            /\ Len(drawn) <= NODE_LABEL_MAX_LENGTH

\* C24 without the labels of 30 to 32 characters, which are drawn cut.
C24_LabelTruncationFrom30 ==
    \A n \in DOMAIN views \cap DOMAIN nodes :
        LET text  == nodes[n].text
            drawn == DrawNodeLabels(nodes, views)[n]
        IN  /\ Len(text) <= NODE_LABEL_MAX_LENGTH - 3 => drawn = text
            /\ Len(text) > NODE_LABEL_MAX_LENGTH - 3 =>
                 drawn = SubSeq(text, 1, NODE_LABEL_MAX_LENGTH - 4)
                            \o <<".", ".", ".">>
            /\ Len(drawn) <= NODE_LABEL_MAX_LENGTH - 1

====
